---- MODULE Spec2Model ----
(***************************************************************************)
(* Goldilocks thermostat head unit (thermostat.py): the cooperative task   *)
(* runner, the main loop, the temperature aggregation and the hysteresis   *)
(* control policy.                                                         *)
(*                                                                         *)
(* Units.  Monotonic time is in whole seconds.  Fahrenheit values are in   *)
(* tenths of a degree and Celsius values in eighteenths of a degree, so    *)
(* that both conversions of the program are exact on the integers.  A      *)
(* fused temperature is the fraction [num, den] (Fahrenheit tenths),       *)
(* compared by cross-multiplication.  Setpoints are kept in whole degrees  *)
(* Fahrenheit as the program keeps them.                                   *)
(***************************************************************************)
EXTENDS Integers, Sequences, FiniteSets, Bags, TLC

VARIABLES
    clock,              \* time.monotonic(), seconds
    pc,                 \* position of Thermostat.run: "feed", "run", "gui"; "crashed"
    task_queue,         \* TaskRunner.task_queue: bag of [item, priority]
    temperatures,       \* Thermostat.temperatures: source name -> Datum
    target_temperature, \* Thermostat.target_temperature: None or Some(degrees F)
    data,               \* Settings._data: temp_low, temp_high
    dirty,              \* Settings._dirty
    file,               \* the settings file: None or Some(its text)
    saved,              \* record of the last Settings.save call
    feeds,              \* watchdog feeds since the last TaskRunner.run call
    client,             \* Mqtt.client: None or Some(session)
    socket_pool,        \* Network._socket_pool: None or Some(pool)
    last_advertisement, \* Mqtt.last_advertisement
    index,              \* Scheduler.index
    commands,           \* heat pump commands sent by the last temperature_updated
    pump,               \* HeatPump: the mode and the power last commanded
    selected,           \* the presets Scheduler.poll has selected, in order
    changed,            \* whether a setting changed since Settings.save last ran
    logged,             \* Logger: bag of the lines logged by the last handler
    polled,             \* record of the last Mqtt.poll call
    last,               \* record of the last TaskRunner.run call
    runs,               \* per task name: how many times the task was executed
    late,               \* the names of the tasks once executed over a period late
    env                 \* the environment of this run: hardware found, inputs offered

vars == <<clock, pc, task_queue, temperatures, target_temperature, data, dirty,
          file, saved, feeds, client, socket_pool, last_advertisement, index,
          commands, pump, selected, changed, logged, polled, last, runs, late, env>>

\* ------------------------------------------------------------------ bounds

\* The monotonic clock is followed up to MaxTime seconds.
MaxTime == 8
\* A task body takes 0..MaxDur seconds.
MaxDur == 2
\* At most MaxSaves one-shot "settings save" tasks are pending at a time.
MaxSaves == 1
\* The setpoints set with the buttons are followed within MinTemp..MaxTemp
\* degrees F.
MinTemp == 56
MaxTemp == 82
\* The settings called one by one are followed for SetTime seconds, the
\* buttons for PanelTime seconds.
SetTime == 30
PanelTime == 120
\* The buttons and the temperature updates are followed for RangeTime seconds.
RangeTime == 45
\* The set_range calls of one burst.
MaxBurst == 2
\* Bursts of set_range calls and their saves are followed for BurstTime seconds.
BurstTime == 45
\* The schedule is followed for a day, in seconds.
DayTime == 86400
\* The main loop of a thermostat that saves its settings is followed for
\* SaveTime seconds.
SaveTime == 16

\* ------------------------------------------------------------------ values

None == <<>>
Some(x) == <<x>>

Max(a, b) == IF a >= b THEN a ELSE b
Min(a, b) == IF a <= b THEN a ELSE b

\* celsius * 9 / 5 + 32, from eighteenths of a degree C to tenths of a degree F
celsius_to_fahrenheit(celsius) == (celsius * 9 * 10) \div (5 * 18) + 32 * 10

\* A whole number of degrees Fahrenheit, in tenths.
Deg(f) == f * 10

\* ------------------------------------------------------------------ priority queue
\* priority_queue.PriorityQueue: the entry of greatest priority comes out first,
\* entries of equal priority in no particular order; add() inserts an entry.

PQ_add(q, item, priority) == q (+) SetToBag({[item |-> item, priority |-> priority]})

PQ_peek_priority(q) ==
    CHOOSE p \in {e.priority : e \in BagToSet(q)} :
        \A e \in BagToSet(q) : e.priority <= p

\* The entries pop() may return.
PQ_top(q) == {e \in BagToSet(q) : e.priority = PQ_peek_priority(q)}

PQ_remove(q, e) == q (-) SetToBag({e})

\* ------------------------------------------------------------------ tasks

\* Task(fn, name) and RepeatTask(fn, period, name).  A plain Task has no period
\* (period 0 here); id tells apart the Task objects that share a name.
Task(name, id) == [name |-> name, period |-> 0, id |-> id]
RepeatTask(name, period) == [name |-> name, period |-> period, id |-> 0]

IsRepeatTask(task) == task.period > 0

TimeUpdate == RepeatTask("time update", 1)
TimeSync == RepeatTask("time sync", 12 * 3600)
LocalTempPoll == RepeatTask("local temp poll", 5)
SchedulerPoll == RepeatTask("scheduler poll", 15)
MqttConnect == RepeatTask("mqtt connect", 60)
MqttPoll == RepeatTask("mqtt poll", 1)
MqttAdvertise == RepeatTask("mqtt advertise", 123)
HeatPumpPoll == RepeatTask("heatpump poll", 1)
SettingsSave(id) == Task("settings save", id)
\* The task of Thermostat.network_connect, which __init__ leaves out.
NetworkConnect == RepeatTask("network connect", 10)

TaskNames == {"time update", "time sync", "local temp poll", "scheduler poll",
              "mqtt connect", "mqtt poll", "mqtt advertise", "heatpump poll",
              "settings save"}

\* TaskRunner.add: due at the current time plus delay
TaskRunner_add(q, task, now, delay) == PQ_add(q, task, 0 - now - delay)

Items(q) == {e.item : e \in BagToSet(q)}

\* How many entries of q hold the task.
EntriesOf(q, task) ==
    LET es == {e \in BagToSet(q) : e.item = task}
        RECURSIVE Sum(_)
        Sum(S) == IF S = {} THEN 0
                  ELSE LET e == CHOOSE x \in S : TRUE
                       IN CopiesIn(e, q) + Sum(S \ {e})
    IN Sum(es)

\* ------------------------------------------------------------------ fractions

Frac(n) == [num |-> n, den |-> 1]
FracLE(a, b) == a.num * b.den <= b.num * a.den
FracLT(a, b) == a.num * b.den < b.num * a.den
FracEQ(a, b) == a.num * b.den = b.num * a.den

\* Mutant: the value is passed on in Fahrenheit.
fahrenheit_to_celsius_Identity(f) == f

\* (fahrenheit - 32) * 5 / 9, from a fraction of tenths of a degree F to a
\* fraction of eighteenths of a degree C
fahrenheit_to_celsius(f) ==
    [num |-> ((f.num - 32 * 10 * f.den) * 5 * 18) \div (9 * 10), den |-> f.den]

\* ------------------------------------------------------------------ program state
\* The handlers below are functions on the record of the program's mutable
\* state; `raised` says that an exception is propagating out of the handler.

Store == [task_queue |-> task_queue, temperatures |-> temperatures,
          target_temperature |-> target_temperature, data |-> data,
          dirty |-> dirty, file |-> file, saved |-> saved, client |-> client,
          socket_pool |-> socket_pool, last_advertisement |-> last_advertisement,
          index |-> index, commands |-> commands, pump |-> pump, selected |-> selected, changed |-> changed,
          logged |-> logged,
          polled |-> polled, raised |-> FALSE]

Apply(s) ==
    /\ task_queue' = s.task_queue
    /\ temperatures' = s.temperatures
    /\ target_temperature' = s.target_temperature
    /\ data' = s.data
    /\ dirty' = s.dirty
    /\ file' = s.file
    /\ saved' = s.saved
    /\ client' = s.client
    /\ socket_pool' = s.socket_pool
    /\ last_advertisement' = s.last_advertisement
    /\ index' = s.index
    /\ commands' = s.commands
    /\ pump' = s.pump
    /\ selected' = s.selected
    /\ changed' = s.changed
    /\ logged' = s.logged
    /\ polled' = s.polled

\* ------------------------------------------------------------------ Logger

\* Logger.debug / Logger.error: one more line, its text and what it is about
Log(s, level, text, about) ==
    [s EXCEPT !.logged = @ (+) SetToBag({[level |-> level, text |-> text,
                                          about |-> about]})]

\* How many lines of that text were logged.
Lines(bag, text) ==
    LET es == {e \in BagToSet(bag) : e.text = text}
        RECURSIVE Sum(_)
        Sum(S) == IF S = {} THEN 0
                  ELSE LET e == CHOOSE x \in S : TRUE
                       IN CopiesIn(e, bag) + Sum(S \ {e})
    IN Sum(es)

\* ------------------------------------------------------------------ Settings

DefaultData == [temp_high |-> 80, temp_low |-> 60]

\* Mutant: every call of set marks the settings dirty.
Settings_set_AlwaysDirty(s, name, value) ==
    IF name \notin DOMAIN s.data
    THEN [s EXCEPT !.raised = TRUE]
    ELSE [s EXCEPT !.data = [s.data EXCEPT ![name] = value], !.dirty = TRUE]

\* Mutant: set stores the value and leaves the dirty flag alone.
Settings_set_Silent(s, name, value) ==
    IF name \notin DOMAIN s.data
    THEN [s EXCEPT !.raised = TRUE]
    ELSE [s EXCEPT !.data = [s.data EXCEPT ![name] = value]]

\* Mutant: a key the settings do not have is added to them.
Settings_set_AddsKey(s, name, value) ==
    IF name \notin DOMAIN s.data
    THEN [s EXCEPT !.data = [k \in DOMAIN s.data \cup {name} |->
                                IF k = name THEN value ELSE s.data[k]],
                   !.dirty = TRUE]
    ELSE IF value # s.data[name]
         THEN [s EXCEPT !.data = [s.data EXCEPT ![name] = value], !.dirty = TRUE]
         ELSE s

\* Settings.set / __setattr__
Settings_set(s, name, value) ==
    IF name \notin DOMAIN s.data
    THEN [s EXCEPT !.raised = TRUE]
    ELSE IF value # s.data[name]
         THEN [s EXCEPT !.data = [s.data EXCEPT ![name] = value], !.dirty = TRUE,
                        !.changed = TRUE]
         ELSE s

NoKeys == [k \in {} |-> 0]

\* json.dumps(self._data): the text of a JSON object of these keys and values
json_dumps(d) == [json |-> "object", obj |-> d]

\* A text json.load rejects with ValueError, such as a write cut short leaves.
NotJson == [json |-> "none", obj |-> NoKeys]

\* A JSON text that is not an object, such as 42: json.load returns the
\* number and dict.update raises TypeError on it.
JsonNumber == [json |-> "number", obj |-> NoKeys]

\* Settings.load, from the file as found at start-up: the settings, whether an
\* exception leaves load, and the line logged.
Settings_load(f) ==
    IF f = None \/ (f # None /\ f[1].json = "none")
    THEN [data |-> DefaultData, raised |-> FALSE, line |-> "Loading"]
    ELSE IF f[1].json = "object"
         THEN [data |-> f[1].obj @@ DefaultData, raised |-> FALSE, line |-> "Loaded"]
         ELSE [data |-> DefaultData, raised |-> TRUE, line |-> ""]

\* What is kept of a call of Settings.save: whether it opened the file for
\* writing.
NoSave == [called |-> FALSE, wrote |-> FALSE]

\* Mutant: a save that fails clears the dirty flag all the same.
Settings_save_Forgets(s, write_ok, cut) ==
    IF ~s.dirty THEN [s EXCEPT !.saved = [called |-> TRUE, wrote |-> FALSE]]
    ELSE IF write_ok
         THEN [s EXCEPT !.file = Some([json |-> "object", obj |-> s.data]),
                        !.dirty = FALSE,
                        !.saved = [called |-> TRUE, wrote |-> TRUE]]
         ELSE [Log(s, "ERROR", "Saving", "settings")
                  EXCEPT !.file = IF cut THEN Some(NotJson) ELSE @,
                         !.dirty = FALSE,
                         !.saved = [called |-> TRUE, wrote |-> TRUE]]

\* Mutant: save writes the file whether or not a setting is dirty.
Settings_save_Always(s, write_ok, cut) ==
    IF write_ok
    THEN [s EXCEPT !.file = Some([json |-> "object", obj |-> s.data]), !.dirty = FALSE,
                   !.saved = [called |-> TRUE, wrote |-> TRUE],
                   !.changed = FALSE]
    ELSE [s EXCEPT !.logged = @ (+) SetToBag({[level |-> "ERROR", text |-> "Saving",
                                               about |-> "settings"]}),
                   !.file = IF cut THEN Some([json |-> "none", obj |-> [k \in {} |-> 0]])
                            ELSE @,
                   !.saved = [called |-> TRUE, wrote |-> TRUE],
                   !.changed = FALSE]

\* Settings.save; write_ok: whether writing the file succeeds; cut: whether a
\* failed write leaves the file truncated (open() succeeded, write() did not)
Settings_save(s, write_ok, cut) ==
    IF ~s.dirty THEN [s EXCEPT !.saved = [called |-> TRUE, wrote |-> FALSE],
                               !.changed = FALSE]
    ELSE IF write_ok
         THEN [s EXCEPT !.file = Some(json_dumps(s.data)), !.dirty = FALSE,
                        !.saved = [called |-> TRUE, wrote |-> TRUE],
                        !.changed = FALSE]
         ELSE [Log(s, "ERROR", "Saving", "settings")
                  EXCEPT !.file = IF cut THEN Some(NotJson) ELSE @,
                         !.saved = [called |-> TRUE, wrote |-> TRUE],
                         !.changed = FALSE]

\* ------------------------------------------------------------------ Thermostat

Presets == [Sleep |-> <<58, 74>>, Away |-> <<64, 79>>, Home |-> <<68, 75>>]

SaveTasks(q) == {t \in Items(q) : t.name = "settings save"}

\* The identity of a newly created Task object: one no queued Task has.
NewSaveTask(q) ==
    SettingsSave(CHOOSE i \in 1..(Cardinality(SaveTasks(q)) + 1) :
                     SettingsSave(i) \notin SaveTasks(q))

\* Mutant: set_range leaves the control target as it is.
set_range_KeepsTarget(s, low, high, now) ==
    LET s1 == Settings_set(s, "temp_low", low)
        s2 == Settings_set(s1, "temp_high", high)
    IN [s2 EXCEPT !.task_queue = TaskRunner_add(s2.task_queue,
                                                NewSaveTask(s2.task_queue), now, 15)]

\* Mutant: set_range switches the heat pump off when it clears the target.
set_range_PowerOff(s, low, high, now) ==
    LET s1 == Settings_set(s, "temp_low", low)
        s2 == Settings_set(s1, "temp_high", high)
    IN [s2 EXCEPT !.target_temperature = None,
                  !.commands = <<[op |-> "set_power", mode |-> "", on |-> FALSE,
                                  temp |-> [num |-> 0, den |-> 1]]>>,
                  !.pump = [@ EXCEPT !.power = "off"],
                  !.task_queue = TaskRunner_add(s2.task_queue,
                                                NewSaveTask(s2.task_queue), now, 15)]

\* Thermostat.set_range, called when the clock reads `now`
set_range(s, low, high, now) ==
    LET s1 == Settings_set(s, "temp_low", low)
        s2 == Settings_set(s1, "temp_high", high)
    IN [s2 EXCEPT !.target_temperature = None,
                  !.task_queue = TaskRunner_add(s2.task_queue,
                                                NewSaveTask(s2.task_queue), now, 15)]

\* Thermostat.select_preset
select_preset(s, name, now) == set_range(s, Presets[name][1], Presets[name][2], now)

\* Datum(value) created when the clock reads `now`
Datum(value, now) == [value |-> value, timestamp |-> now]

\* Datum.age
age(datum, now) == now - datum.timestamp

\* Mutant: every reading counts, whatever its age.
Fresh_All(temps, now) == DOMAIN temps

\* The readings overall_temperature counts.
Fresh(temps, now) == {k \in DOMAIN temps : age(temps[k], now) < 120}

\* Mutant: with no reading to count the result is 0.
overall_temperature_NoDefault(temps, now) ==
    LET live == Fresh(temps, now)
        RECURSIVE Total(_)
        Total(S) == IF S = {} THEN 0
                    ELSE LET k == CHOOSE x \in S : TRUE
                         IN temps[k].value + Total(S \ {k})
    IN [num |-> Total(live), den |-> Max(1, Cardinality(live))]

\* Thermostat.overall_temperature: the mean of the fresh readings, or 70
overall_temperature(temps, now) ==
    LET live == Fresh(temps, now)
        RECURSIVE Total(_)
        Total(S) == IF S = {} THEN 0
                    ELSE LET k == CHOOSE x \in S : TRUE
                         IN temps[k].value + Total(S \ {k})
        count == Cardinality(live)
    IN IF count = 0 THEN Frac(Deg(70))
       ELSE [num |-> Total(live), den |-> count]

\* Thermostat.overall_temperature: log.debug("ignore", datum) for each reading
\* that is not counted
LogIgnored(s, now) ==
    LET stale == DOMAIN s.temperatures \ Fresh(s.temperatures, now)
    IN [s EXCEPT !.logged =
           @ (+) SetToBag({[level |-> "DEBUG", text |-> "ignore", about |-> k] :
                              k \in stale})]

\* Mutant: a reading recorded replaces the whole table.
Stored_Only(temps, updates, now) ==
    [k \in DOMAIN updates |-> Datum(updates[k], now)]

\* self.temperatures[k] = Datum(v), for each (k, v) of updates
Stored(temps, updates, now) ==
    [k \in DOMAIN temps \cup DOMAIN updates |->
        IF k \in DOMAIN updates THEN Datum(updates[k], now) ELSE temps[k]]

\* Heat pump commands
SetMode(mode) == [op |-> "set_mode", mode |-> mode, on |-> FALSE, temp |-> Frac(0)]
SetPower(on) == [op |-> "set_power", mode |-> "", on |-> on, temp |-> Frac(0)]
SetTemperatureC(c) == [op |-> "set_temperature_c", mode |-> "", on |-> FALSE, temp |-> c]
SetRemoteTemperatureC(c) ==
    [op |-> "set_remote_temperature_c", mode |-> "", on |-> FALSE, temp |-> c]

\* Mutant: heating starts only strictly under the low setpoint.
IsCold_Strict(overall, low) == FracLT(overall, Frac(Deg(low)))

\* Mutant: the dead-band is left as soon as its edge is reached.
GoalAchieved_Closed(overall, low, high) ==
    /\ FracLE(Frac(Deg(low + 1)), overall)
    /\ FracLE(overall, Frac(Deg(high - 1)))

\* Mutant: the controller takes itself for idle at every update.
IsIdle_Always(target) == TRUE

\* Mutant: Heating or Cooling ends as soon as the temperature is over low + 1.
GoalAchieved_Over(overall, low, high) == FracLT(Frac(Deg(low + 1)), overall)

\* if self.target_temperature is None
IsIdle(target) == target = None

\* From Idle: the temperature is at or under the low setpoint.
IsCold(overall, low) == FracLE(overall, Frac(Deg(low)))

\* From Idle: the temperature is at or over the high setpoint.
IsHot(overall, high) == FracLE(Frac(Deg(high)), overall)

\* From Heating or Cooling: the temperature is inside the dead-band.
GoalAchieved(overall, low, high) ==
    /\ FracLT(Frac(Deg(low + 1)), overall)
    /\ FracLT(overall, Frac(Deg(high - 1)))

\* HeatPump: what set_mode and set_power last asked for; nothing yet.
NoCommand == [mode |-> "", power |-> "", order |-> <<>>]

\* HeatPump after the calls cmds, in their order: the mode and the power last
\* asked for, and the order in which the last set_mode and the last set_power
\* were made.
RECURSIVE HeatPump_after(_, _)
HeatPump_after(p, cmds) ==
    IF cmds = <<>> THEN p
    ELSE LET c == Head(cmds)
             keep(op) == SelectSeq(p.order, LAMBDA o : o # op)
             p1 == CASE c.op = "set_mode" ->
                            [p EXCEPT !.mode = c.mode,
                                      !.order = Append(keep("set_mode"), "set_mode")]
                     [] c.op = "set_power" ->
                            [p EXCEPT !.power = IF c.on THEN "on" ELSE "off",
                                      !.order = Append(keep("set_power"), "set_power")]
                     [] OTHER -> p
         IN HeatPump_after(p1, Tail(cmds))

\* Mutant: the goal once achieved, the heat pump is left switched on.
temperature_updated_NoPowerOff(s0, now) ==
    LET overall == overall_temperature(s0.temperatures, now)
        s == LogIgnored(s0, now)
        low == s.data.temp_low
        high == s.data.temp_high
        remote == SetRemoteTemperatureC(fahrenheit_to_celsius(overall))
        r == IF IsIdle(s.target_temperature)
             THEN IF IsCold(overall, low)
                  THEN [s EXCEPT !.target_temperature = Some(low + 1),
                                 !.commands = <<SetMode("HEAT"), SetPower(TRUE),
                                                SetTemperatureC(fahrenheit_to_celsius(Frac(Deg(low + 1)))),
                                                remote>>]
                  ELSE IF IsHot(overall, high)
                       THEN [s EXCEPT !.target_temperature = Some(high - 1),
                                      !.commands = <<SetMode("COOL"), SetPower(TRUE),
                                                     SetTemperatureC(fahrenheit_to_celsius(Frac(Deg(high - 1)))),
                                                     remote>>]
                       ELSE [s EXCEPT !.commands = <<SetPower(FALSE), remote>>]
             ELSE IF GoalAchieved(overall, low, high)
                  THEN [s EXCEPT !.target_temperature = None,
                                 !.commands = <<remote>>]
                  ELSE [s EXCEPT !.commands = <<remote>>]
    IN [r EXCEPT !.pump = HeatPump_after(s0.pump, r.commands)]

\* Thermostat.temperature_updated, called when the clock reads `now`
temperature_updated(s0, now) ==
    LET overall == overall_temperature(s0.temperatures, now)
        s == LogIgnored(s0, now)
        low == s.data.temp_low
        high == s.data.temp_high
        remote == SetRemoteTemperatureC(fahrenheit_to_celsius(overall))
        r == IF IsIdle(s.target_temperature)
             THEN IF IsCold(overall, low)
                  THEN [s EXCEPT !.target_temperature = Some(low + 1),
                                 !.commands = <<SetMode("HEAT"), SetPower(TRUE),
                                                SetTemperatureC(fahrenheit_to_celsius(Frac(Deg(low + 1)))),
                                                remote>>]
                  ELSE IF IsHot(overall, high)
                       THEN [s EXCEPT !.target_temperature = Some(high - 1),
                                      !.commands = <<SetMode("COOL"), SetPower(TRUE),
                                                     SetTemperatureC(fahrenheit_to_celsius(Frac(Deg(high - 1)))),
                                                     remote>>]
                       ELSE [s EXCEPT !.commands = <<SetPower(FALSE), remote>>]
             ELSE IF GoalAchieved(overall, low, high)
                  THEN [s EXCEPT !.target_temperature = None,
                                 !.commands = <<SetPower(FALSE), remote>>]
                  ELSE [s EXCEPT !.commands = <<remote>>]
    IN [r EXCEPT !.pump = HeatPump_after(s0.pump, r.commands)]

\* Thermostat.poll_local_temp; reading: what bme280.temperature gives (Celsius),
\* or None when the read raises
poll_local_temp(s, reading, now) ==
    IF reading = None
    THEN [s EXCEPT !.raised = TRUE]
    ELSE temperature_updated(
             [s EXCEPT !.temperatures =
                  Stored(@, [k \in {"head"} |-> celsius_to_fahrenheit(reading[1])], now)],
             now)

\* ------------------------------------------------------------------ Mqtt

\* Network.connect; connected: Network.connected(); ok: whether
\* wifi.radio.connect() succeeds
Network_connect(s, connected, ok) ==
    IF connected THEN s
    ELSE IF ok THEN [s EXCEPT !.socket_pool = Some("pool")]
    ELSE Log(s, "ERROR", "connect to", "network")

\* Mutant: a session that exists does not keep connect from connecting again.
Mqtt_connect_Again(s, connected, ok) ==
    IF ~connected THEN s
    ELSE IF s.socket_pool = None THEN s
    ELSE LET s1 == Log(s, "DEBUG", "MQTT connecting", "mqtt")
         IN IF ok THEN [s1 EXCEPT !.client = Some("session")]
            ELSE [Log(s1, "ERROR", "Failed to connect", "mqtt") EXCEPT !.client = None]

\* Mqtt.connect; connected: Network.connected(); ok: whether connect() and
\* subscribe() succeed
Mqtt_connect(s, connected, ok) ==
    IF ~connected \/ s.client # None THEN s
    ELSE IF s.socket_pool = None THEN s
    ELSE LET s1 == Log(s, "DEBUG", "MQTT connecting", "mqtt")
         IN IF ok THEN [s1 EXCEPT !.client = Some("session")]
            ELSE [Log(s1, "ERROR", "Failed to connect", "mqtt") EXCEPT !.client = None]

\* Mutant: a disconnect() that fails ends the recovery with its exception.
Mqtt_recover_Raises(s, disc_ok) ==
    IF s.client = None \/ ~disc_ok
    THEN [Log(s, "ERROR", "MQTT loop() raised", "mqtt") EXCEPT !.raised = TRUE]
    ELSE [Log(s, "ERROR", "MQTT loop() raised", "mqtt") EXCEPT !.client = None]

\* Mqtt.recover; disc_ok: whether disconnect() succeeds (with no session it
\* fails with AttributeError).  The failure is logged and the session dropped.
Mqtt_recover(s, disc_ok) ==
    LET s1 == Log(s, "ERROR", "MQTT loop() raised", "mqtt")
        s2 == IF s.client = None \/ ~disc_ok
              THEN Log(s1, "ERROR", "MQTT disconnect() raised", "mqtt")
              ELSE s1
    IN [s2 EXCEPT !.client = None]

\* Mqtt.advertise; ok: whether publish() succeeds
Mqtt_advertise(s, ok, disc_ok, now) ==
    IF s.client = None THEN s
    ELSE LET s1 == IF ok THEN s ELSE Mqtt_recover(s, disc_ok)
         IN IF s1.raised THEN s1 ELSE [s1 EXCEPT !.last_advertisement = now]

\* What is kept of a call of Mqtt.poll: whether there was a session, the
\* messages loop() delivered, whether loop() or a publish failed, the list
\* returned.
NoPoll == [called |-> FALSE, had |-> FALSE, msgs |-> <<>>, failed |-> FALSE,
           retval |-> <<>>]

\* retval = list(self.temperatures.items()), after the try block
Returned(got, failed) == got

\* Mqtt.poll.  msgs: the messages loop() hands to on_message, location -> payload
\* (None: a payload float() rejects); loop_ok, adv_ok, pub_ok: whether loop(),
\* the publish of advertise() and the uptime publish succeed.  Gives the store
\* and the list returned, as location -> value.
Mqtt_poll(s, msgs, loop_ok, adv_ok, pub_ok, disc_ok, now) ==
    IF s.client = None
    THEN [s |-> [s EXCEPT !.polled = [NoPoll EXCEPT !.called = TRUE]], retval |-> <<>>]
    ELSE IF \E k \in DOMAIN msgs : msgs[k] = None
         THEN [s |-> [s EXCEPT !.raised = TRUE], retval |-> <<>>]
         ELSE LET got == [k \in DOMAIN msgs |-> msgs[k][1]]
                  due == now - s.last_advertisement > 600
                  failed == ~loop_ok \/ (due /\ ~adv_ok) \/ ~pub_ok
                  s1 == IF ~loop_ok THEN Mqtt_recover(s, disc_ok)
                        ELSE LET s2 == IF due
                                       THEN Mqtt_advertise(s, adv_ok, disc_ok, now)
                                       ELSE s
                             IN IF s2.raised THEN s2
                                ELSE IF s2.client = None \/ ~pub_ok
                                     THEN Mqtt_recover(s2, disc_ok)
                                     ELSE s2
                  retval == Returned(got, failed)
              IN [s |-> [s1 EXCEPT !.polled = [called |-> TRUE, had |-> TRUE,
                                               msgs |-> msgs, failed |-> failed,
                                               retval |-> retval]],
                  retval |-> retval]

\* Thermostat.poll_mqtt
poll_mqtt(s, msgs, loop_ok, adv_ok, pub_ok, disc_ok, now) ==
    LET r == Mqtt_poll(s, msgs, loop_ok, adv_ok, pub_ok, disc_ok, now)
    IN IF r.s.raised THEN r.s
       ELSE temperature_updated(
                [r.s EXCEPT !.temperatures = Stored(@, r.retval, now)], now)

\* ------------------------------------------------------------------ Scheduler

Daily == << [hour |-> 8, minute |-> 0, preset |-> "Away"],
            [hour |-> 22, minute |-> 0, preset |-> "Sleep"] >>

\* Mutant: past the last block of the table its index is returned, the number
\* of the block of 22:00.
find_index_NoWrap(tm) ==
    LET daily == << [hour |-> 8, minute |-> 0], [hour |-> 22, minute |-> 0] >>
        later == {i \in 1..Len(daily) :
                     \/ daily[i].hour > tm.tm_hour
                     \/ (daily[i].hour = tm.tm_hour /\ daily[i].minute > tm.tm_min)}
    IN IF later = {} THEN Len(daily) - 1
       ELSE (CHOOSE i \in later : \A j \in later : i <= j) - 1 - 1

\* Scheduler.find_index (indices count from 0, as in the program)
find_index(tm) ==
    LET later == {i \in 1..Len(Daily) :
                     \/ Daily[i].hour > tm.tm_hour
                     \/ (Daily[i].hour = tm.tm_hour /\ Daily[i].minute > tm.tm_min)}
    IN IF later = {} THEN 0 - 1
       ELSE (CHOOSE i \in later : \A j \in later : i <= j) - 1 - 1

\* daily[i] of the program: an index below 0 counts from the end
DailyAt(i) == IF i < 0 THEN Daily[Len(Daily) + i + 1] ELSE Daily[i + 1]

\* Scheduler.poll; tm: what Thermostat.now() gives
Scheduler_poll(s, tm, now) ==
    LET new_index == find_index(tm)
    IN IF new_index # s.index
       THEN LET s1 == select_preset(s, DailyAt(new_index).preset, now)
                s2 == Log(s1, "DEBUG", "schedule poll change to",
                          DailyAt(new_index).preset)
            IN [s2 EXCEPT !.index = new_index,
                          !.selected = Append(@, DailyAt(new_index).preset)]
       ELSE s

\* ------------------------------------------------------------------ Gui

\* Mutant: the high setpoint is not moved out of the way of the low one.
increase_low_temperature_NoClamp(s, amount, now) ==
    set_range(s, s.data.temp_low + amount, s.data.temp_high, now)

\* Gui.increase_low_temperature
increase_low_temperature(s, amount, now) ==
    set_range(s, s.data.temp_low + amount,
              Max(s.data.temp_high, s.data.temp_low + 4), now)

\* Mutant: the low setpoint is not moved out of the way of the high one.
increase_high_temperature_NoClamp(s, amount, now) ==
    set_range(s, s.data.temp_low, s.data.temp_high + amount, now)

\* Gui.increase_high_temperature
increase_high_temperature(s, amount, now) ==
    set_range(s, Min(s.data.temp_low, s.data.temp_high - 4),
              s.data.temp_high + amount, now)

\* What a button press does: button.pressed()
Pressed(s, event, now) ==
    CASE event.kind = "preset" -> select_preset(s, event.name, now)
      [] event.kind = "low" -> increase_low_temperature(s, event.amount, now)
      [] event.kind = "high" -> increase_high_temperature(s, event.amount, now)
      [] OTHER -> s

NoEvent == [kind |-> "none", name |-> "", amount |-> 0]
PresetEvent(name) == [kind |-> "preset", name |-> name, amount |-> 0]
LowEvent(amount) == [kind |-> "low", name |-> "", amount |-> amount]
HighEvent(amount) == [kind |-> "high", name |-> "", amount |-> amount]

\* An event that calls set_range creates a Task.
CreatesTask(event) == event.kind # "none"

\* ------------------------------------------------------------------ inputs

Midnight == [tm_hour |-> 0, tm_min |-> 0]

\* What the environment hands to one task body.
NoInput == [reading |-> None, tm |-> Midnight, write_ok |-> TRUE, cut |-> FALSE,
            connected |-> FALSE,
            ok |-> TRUE, msgs |-> <<>>, loop_ok |-> TRUE, adv_ok |-> TRUE,
            pub_ok |-> TRUE, disc_ok |-> TRUE]

\* Room for one more pending "settings save" Task.
Room(q) == Cardinality(SaveTasks(q)) < MaxSaves

Inputs(task, q) ==
    CASE task.name = "local temp poll" ->
             {[NoInput EXCEPT !.reading = r] : r \in env.readings}
      [] task.name = "scheduler poll" ->
             {[NoInput EXCEPT !.tm = tm] :
                 tm \in {t \in env.walls : Room(q) \/ find_index(t) = index}}
      [] task.name = "settings save" ->
             \* only a write that fails can leave the file truncated
             {[NoInput EXCEPT !.write_ok = w, !.cut = c] :
                 w \in env.writes, c \in BOOLEAN} \ {[NoInput EXCEPT !.cut = TRUE]}
      [] task.name \in {"mqtt connect", "time sync", "network connect"} ->
             {[NoInput EXCEPT !.connected = c, !.ok = o] :
                 c \in env.connected, o \in env.oks}
      [] task.name = "mqtt poll" ->
             {[NoInput EXCEPT !.msgs = m, !.loop_ok = l, !.adv_ok = a, !.pub_ok = b,
                              !.disc_ok = d] :
                 m \in env.msgs, l \in BOOLEAN, a \in BOOLEAN, b \in BOOLEAN,
                 d \in BOOLEAN}
      [] task.name = "mqtt advertise" ->
             {[NoInput EXCEPT !.adv_ok = a, !.disc_ok = d] : a \in BOOLEAN, d \in BOOLEAN}
      [] OTHER -> {NoInput}

\* ------------------------------------------------------------------ task bodies

\* Task.fn of the task; the body reads the clock as `at`
Body(task, s, in, at) ==
    CASE task.name = "local temp poll" -> poll_local_temp(s, in.reading, at)
      [] task.name = "scheduler poll" -> Scheduler_poll(s, in.tm, at)
      [] task.name = "mqtt connect" -> Mqtt_connect(s, in.connected, in.ok)
      [] task.name = "network connect" -> Network_connect(s, in.connected, in.ok)
      [] task.name = "mqtt poll" ->
             poll_mqtt(s, in.msgs, in.loop_ok, in.adv_ok, in.pub_ok, in.disc_ok, at)
      [] task.name = "mqtt advertise" -> Mqtt_advertise(s, in.adv_ok, in.disc_ok, at)
      [] task.name = "settings save" -> Settings_save(s, in.write_ok, in.cut)
      [] OTHER -> s

\* Task.run / RepeatTask.run; result: what fn() returned
Task_run(task, result) == IF IsRepeatTask(task) THEN Some(task.period) ELSE result

\* ------------------------------------------------------------------ TaskRunner.run

\* Mutant: the head of the queue is run whether it is due or not.
IsDue_Always(run_time, now) == TRUE

\* Mutant: a task is taken one second before it is due.
IsDue_Early(run_time, now) == run_time <= now + 1

\* if run_time <= now
IsDue(run_time, now) == run_time <= now

\* if run_after
Truthy(run_after) == run_after # None /\ run_after[1] # 0

\* Mutant: the next due time is never moved up to now + run_after.
NextTime_NoClamp(run_time, now, run_after) == run_time + run_after

\* Mutant: the next due time is always counted from now.
NextTime_FromNow(run_time, now, run_after) == now + run_after

\* Mutant: the clamp is applied as soon as the task ran late at all.
NextTime_Max(run_time, now, run_after) == Max(run_time + run_after, now + run_after)

\* next_time as TaskRunner.run computes it
NextTime(run_time, now, run_after) ==
    LET next_time == run_time + run_after
    IN IF next_time < now THEN now + run_after ELSE next_time

\* Mutant: the executed task is added again even when it returned no delay.
Resubmit_Anyway(q, task, run_time, now, run_after) ==
    PQ_add(q, task, 0 - NextTime(run_time, now,
                                 IF run_after = None THEN 0 ELSE run_after[1]))

\* Mutant: no executed task is added again.
Resubmit_Never(q, task, run_time, now, run_after) == q

\* Mutant: the executed task is added twice.
Resubmit_Twice(q, task, run_time, now, run_after) ==
    IF Truthy(run_after)
    THEN PQ_add(PQ_add(q, task, 0 - NextTime(run_time, now, run_after[1])),
                task, 0 - NextTime(run_time, now, run_after[1]))
    ELSE q

\* The queue after the executed task is resubmitted, or not.
Resubmit(q, task, run_time, now, run_after) ==
    IF Truthy(run_after)
    THEN PQ_add(q, task, 0 - NextTime(run_time, now, run_after[1]))
    ELSE q

\* What is kept of a call of TaskRunner.run: the clock at its start and end, the
\* due time found, the task executed, what it returned, its next due time,
\* target_temperature as it was before the call, and, for an operation called
\* directly, its arguments.
NoRun == [called |-> FALSE, now |-> 0, run_time |-> 0, ran |-> <<>>,
          run_after |-> None, next |-> None, end |-> 0, before |-> None,
          args |-> <<>>]

\* TaskRunner.run, one call
Run ==
    /\ pc = "run"
    /\ LET now == clock
           run_time == 0 - PQ_peek_priority(task_queue)
       IN IF IsDue(run_time, now)
          THEN \E e \in PQ_top(task_queue), dur \in env.durs :
                 /\ now + dur <= env.until
                 /\ \E in \in Inputs(e.item, PQ_remove(task_queue, e)) :
                      LET task == e.item
                          end == now + dur
                          s1 == Body(task,
                                     [Store EXCEPT !.task_queue = PQ_remove(task_queue, e),
                                                   !.logged = EmptyBag],
                                     in, end)
                          run_after == Task_run(task, None)
                          s2 == IF s1.raised THEN s1
                                ELSE [s1 EXCEPT !.task_queue =
                                         Resubmit(@, task, run_time, now, run_after)]
                      IN /\ Apply(s2)
                         /\ clock' = end
                         /\ feeds' = 0
                         /\ pc' = IF s1.raised THEN "crashed" ELSE "gui"
                         /\ runs' = [runs EXCEPT ![task.name] = @ + 1]
                         /\ late' = IF IsRepeatTask(task) /\ now - run_time > task.period
                                    THEN late \cup {task.name} ELSE late
                         /\ last' = [called |-> TRUE, now |-> now, run_time |-> run_time,
                                     ran |-> <<task>>,
                                     run_after |-> run_after,
                                     next |-> IF ~s1.raised /\ Truthy(run_after)
                                              THEN Some(NextTime(run_time, now, run_after[1]))
                                              ELSE None,
                                     end |-> end, before |-> target_temperature,
                                     args |-> <<>>]
          ELSE /\ pc' = "gui"
               /\ last' = [NoRun EXCEPT !.called = TRUE, !.now = now,
                                        !.run_time = run_time, !.end = now,
                                        !.before = target_temperature]
               /\ logged' = EmptyBag
               /\ feeds' = 0
               /\ UNCHANGED <<clock, task_queue, temperatures, target_temperature,
                              data, dirty, file, saved, client, socket_pool,
                              last_advertisement, index, commands, pump, selected, changed, polled,
                              runs,
                              late>>
    /\ UNCHANGED env

\* ------------------------------------------------------------------ main loop

\* Mutant: the loop goes back to TaskRunner.run, past the feed of the watchdog.
LoopTop_PastFeed == "run"

\* while True: the first statement of the loop body is the feed of the watchdog
LoopTop == "feed"

\* microcontroller.watchdog.feed()
Feed ==
    /\ pc = "feed"
    /\ pc' = "run"
    /\ feeds' = feeds + 1
    /\ UNCHANGED <<clock, task_queue, temperatures, target_temperature, data, dirty,
                   file, saved, client, socket_pool, last_advertisement, index, commands,
                   pump, selected, changed,
                   logged, polled, last, runs, late, env>>

\* Gui.poll: at most one button is pressed; the poll lasts idle seconds (it
\* goes on for as long as the screen is being touched)
GuiPoll ==
    /\ pc = "gui"
    /\ \E event \in env.events \cup {NoEvent}, idle \in env.idles :
         /\ CreatesTask(event) => Room(task_queue)
         /\ clock + idle <= env.until
         /\ Apply(Pressed(Store, event, clock))
         /\ clock' = clock + idle
    /\ pc' = LoopTop
    /\ UNCHANGED <<feeds, last, runs, late, env>>

\* ------------------------------------------------------------------ handlers, one by one
\* The handlers of Network, Mqtt and Thermostat called directly, in any order
\* and with any time between the calls.

\* One call of the body of the task, the clock reading `clock` throughout.
Call(task) ==
    /\ pc = "unit"
    /\ \E in \in Inputs(task, task_queue) :
         LET s1 == Body(task, [Store EXCEPT !.logged = EmptyBag], in, clock)
         IN /\ Apply(s1)
            /\ pc' = IF s1.raised THEN "crashed" ELSE "unit"
            /\ last' = [NoRun EXCEPT !.called = TRUE, !.now = clock, !.run_time = clock,
                                     !.ran = <<task>>, !.end = clock,
                                     !.before = target_temperature]
    /\ UNCHANGED <<clock, feeds, runs, late, env>>

\* Thermostat.network_connect
CallNetworkConnect == Call(NetworkConnect)

\* Mqtt.connect
CallMqttConnect == Call(MqttConnect)

\* Thermostat.poll_mqtt
CallPollMqtt == Call(MqttPoll)

\* Mqtt.advertise
CallAdvertise == Call(MqttAdvertise)

\* Thermostat.poll_local_temp
CallPollLocal == Call(LocalTempPoll)

\* Time passes until a later one of the instants at which calls are made.
Tick ==
    /\ pc = "unit"
    /\ clock' \in {t \in env.times : t > clock}
    /\ last' = NoRun
    /\ UNCHANGED <<pc, task_queue, temperatures, target_temperature, data, dirty,
                   file, saved, feeds, client, socket_pool, last_advertisement, index, commands,
                   pump, selected, changed,
                   logged, polled, runs, late, env>>

\* ------------------------------------------------------------------ the schedule, over a day

\* Thermostat.now: what the wall clock reads `secs` seconds after it read `start`
localtime(start, secs) ==
    LET minutes == start.tm_hour * 60 + start.tm_min + secs \div 60
    IN [tm_hour |-> (minutes \div 60) % 24, tm_min |-> minutes % 60]

\* Scheduler.poll, Thermostat.now() giving the wall time of the clock
DayPoll ==
    /\ pc = "unit"
    /\ LET tm == localtime(env.start, clock)
           s1 == Scheduler_poll([Store EXCEPT !.logged = EmptyBag], tm, clock)
       IN /\ Room(task_queue) \/ find_index(tm) = index
          /\ Apply(s1)
          /\ pc' = IF s1.raised THEN "crashed" ELSE "unit"
          /\ last' = [NoRun EXCEPT !.called = TRUE, !.now = clock, !.run_time = clock,
                                   !.ran = <<SchedulerPoll>>, !.end = clock,
                                   !.before = target_temperature]
    /\ UNCHANGED <<clock, feeds, runs, late, env>>

\* The scheduler task, run every 15 s, has polled in the block of the day
\* that the clock leaves when it goes on to t.
BlockPolled(t) ==
    find_index(localtime(env.start, t)) # find_index(localtime(env.start, clock))
        => index = find_index(localtime(env.start, clock))

\* Time passes, two hours at most, until a later one of the instants at which
\* calls are made; the settings save, due after 15 s, has run by then.
DayTick ==
    /\ pc = "unit"
    /\ SaveTasks(task_queue) = {}
    /\ \E t \in env.times :
         /\ clock < t
         /\ t <= clock + 7200
         /\ t <= env.until
         /\ BlockPolled(t)
         /\ clock' = t
    /\ last' = NoRun
    /\ UNCHANGED <<pc, task_queue, temperatures, target_temperature, data, dirty,
                   file, saved, feeds, client, socket_pool, last_advertisement, index, commands,
                   pump, selected, changed,
                   logged, polled, runs, late, env>>

\* ------------------------------------------------------------------ settings, one call at a time
\* The operations of Settings, Thermostat.set_range and the buttons of the
\* Gui called directly, in any order.

\* The operation called, as `last` names it.
Op(name) == Task(name, 0)

\* The end of a direct call that left the store as s1.
Called(name, args, s1) ==
    /\ Apply(s1)
    /\ pc' = IF s1.raised THEN "crashed" ELSE "unit"
    /\ last' = [NoRun EXCEPT !.called = TRUE, !.now = clock, !.run_time = clock,
                             !.ran = <<Op(name)>>, !.end = clock,
                             !.before = target_temperature, !.args = args]
    /\ UNCHANGED <<clock, feeds, runs, late, env>>

\* Settings.set(name, value)
CallSet ==
    /\ pc = "unit"
    /\ \E name \in env.names, value \in env.values :
         Called("Settings.set", <<name, value>>,
                Settings_set([Store EXCEPT !.logged = EmptyBag], name, value))

\* Settings.save()
CallSave ==
    /\ pc = "unit"
    /\ \E in \in Inputs(SettingsSave(0), task_queue) :
         Called("Settings.save", <<>>,
                Settings_save([Store EXCEPT !.logged = EmptyBag], in.write_ok, in.cut))

\* Thermostat.set_range(low, high)
CallSetRange ==
    /\ pc = "unit"
    /\ Room(task_queue)
    /\ \E low \in env.values, high \in env.values :
         Called("Thermostat.set_range", <<low, high>>,
                set_range([Store EXCEPT !.logged = EmptyBag], low, high, clock))

\* Thermostat.set_range(low, high), one of a burst of calls made within the
\* same second: the saves still pending are those of this burst.
BurstSetRange ==
    /\ pc = "unit"
    /\ Cardinality(SaveTasks(task_queue)) < MaxBurst
    /\ clock + 15 <= env.until
    /\ \A e \in BagToSet(task_queue) :
          e.item.name = "settings save" => 0 - e.priority = clock + 15
    /\ \E low \in env.values, high \in env.values :
         Called("Thermostat.set_range", <<low, high>>,
                set_range([Store EXCEPT !.logged = EmptyBag], low, high, clock))

\* The setpoints the buttons may reach are followed within MinTemp..MaxTemp.
InRange(s) ==
    /\ s.data.temp_low \in MinTemp..MaxTemp
    /\ s.data.temp_high \in MinTemp..MaxTemp

\* button.pressed() of one of the buttons of the main page, pressed once the
\* change before it is saved
Press ==
    /\ pc = "unit"
    /\ SaveTasks(task_queue) = {}
    /\ \E event \in env.events :
         LET s1 == Pressed([Store EXCEPT !.logged = EmptyBag], event, clock)
         IN /\ InRange(s1)
            /\ Called("button.pressed", <<event>>, s1)

\* Scheduler.poll()
CallSchedulerPoll == Call(SchedulerPoll)

\* Time passes until a pending "settings save" Task is due, and TaskRunner.run
\* executes it: the entry is popped, Settings.save called, and the entry added
\* again if Task.run returns a delay.
RunSaveTask ==
    /\ pc = "unit"
    /\ \E e \in BagToSet(task_queue) :
         /\ e.item.name = "settings save"
         /\ \A f \in BagToSet(task_queue) :
               f.item.name = "settings save" => 0 - e.priority <= 0 - f.priority
         /\ Max(clock, 0 - e.priority) <= env.until
         /\ \E in \in Inputs(e.item, PQ_remove(task_queue, e)) :
              LET task == e.item
                  run_time == 0 - e.priority
                  now == Max(clock, run_time)
                  s1 == Body(task,
                             [Store EXCEPT !.task_queue = PQ_remove(task_queue, e),
                                           !.logged = EmptyBag],
                             in, now)
                  run_after == Task_run(task, None)
                  s2 == IF s1.raised THEN s1
                        ELSE [s1 EXCEPT !.task_queue =
                                 Resubmit(@, task, run_time, now, run_after)]
              IN /\ Apply(s2)
                 /\ clock' = now
                 /\ pc' = IF s1.raised THEN "crashed" ELSE "unit"
                 /\ last' = [NoRun EXCEPT !.called = TRUE, !.now = now,
                                          !.run_time = run_time, !.ran = <<task>>,
                                          !.run_after = run_after, !.end = now,
                                          !.before = target_temperature]
    /\ UNCHANGED <<feeds, runs, late, env>>

\* The pending "settings save" Task run on a day in which every block is polled.
DaySave == RunSaveTask /\ BlockPolled(clock')

\* ------------------------------------------------------------------ start-up

\* The tasks Thermostat.__init__ adds, with their delays, given the hardware found.
StartTasks(e) ==
    (IF e.i2c THEN {<<TimeUpdate, 0>>, <<TimeSync, 10>>} ELSE {})
    \cup (IF e.i2c /\ e.bme THEN {<<LocalTempPoll, 0>>} ELSE {})
    \cup {<<SchedulerPoll, 0>>, <<MqttConnect, 5>>, <<MqttPoll, 6>>,
          <<MqttAdvertise, 6>>, <<HeatPumpPoll, 6>>}

\* The queue after Thermostat.__init__, the clock reading `now` throughout.
StartQueue(e, now) ==
    SetToBag({[item |-> td[1], priority |-> 0 - now - td[2]] : td \in StartTasks(e)})

NoTemperatures == [k \in {} |-> Datum(0, 0)]

\* The state after Thermostat() and show_main, in one of the environments E.
Start(E) ==
    /\ env \in E
    /\ clock = 0
    /\ pc = IF Settings_load(env.file).raised THEN "crashed" ELSE "feed"
    /\ task_queue = StartQueue(env, 0)
    /\ temperatures = NoTemperatures
    /\ target_temperature = None
    /\ data = Settings_load(env.file).data
    /\ dirty = FALSE
    /\ file = env.file
    /\ saved = NoSave
    /\ feeds = 0
    /\ client = None
    /\ socket_pool = None
    /\ last_advertisement = 0
    /\ index = find_index(env.start)
    /\ commands = <<>>
    /\ pump = NoCommand
    /\ selected = <<>>
    /\ changed = FALSE
    /\ logged = EmptyBag
    /\ polled = NoPoll
    /\ last = NoRun
    /\ runs = [n \in TaskNames |-> 0]
    /\ late = {}

\* The state after Thermostat(), the clock reading env.boot, before any handler
\* is called.
UnitStart(E) ==
    /\ env \in E
    /\ clock = env.boot
    /\ pc = IF Settings_load(env.file).raised THEN "crashed" ELSE "unit"
    /\ task_queue = StartQueue(env, env.boot)
    /\ temperatures = NoTemperatures
    /\ target_temperature = None
    /\ data = Settings_load(env.file).data
    /\ dirty = FALSE
    /\ file = env.file
    /\ saved = NoSave
    /\ feeds = 0
    /\ client = None
    /\ socket_pool = None
    /\ last_advertisement = 0
    /\ index = find_index(env.start)
    /\ commands = <<>>
    /\ pump = NoCommand
    /\ selected = <<>>
    /\ changed = FALSE
    /\ logged = EmptyBag
    /\ polled = NoPoll
    /\ last = NoRun
    /\ runs = [n \in TaskNames |-> 0]
    /\ late = {}

\* ------------------------------------------------------------------ environments

Morning == [tm_hour |-> 7, tm_min |-> 59]
Eight == [tm_hour |-> 8, tm_min |-> 0]

\* The clock chip is found and the BME280 is not; the program starts at 07:59
\* and the wall clock may pass 08:00; no button is pressed; a task body takes
\* up to MaxDur seconds and Gui.poll no time or a second.
SchedEnvs ==
    {[i2c |-> TRUE, bme |-> FALSE, readings |-> {Some(21 * 18)}, start |-> Morning,
      walls |-> {Morning, Eight}, events |-> {}, durs |-> 0..MaxDur, idles |-> {0, 1},
      writes |-> {TRUE}, connected |-> {FALSE}, oks |-> BOOLEAN, msgs |-> {<<>>},
      file |-> None, until |-> MaxTime]}

\* Clock chip and BME280 are found; a read of the BME280 gives 21 C or raises;
\* task bodies take no time.
LiveEnvs ==
    {[i2c |-> TRUE, bme |-> TRUE, readings |-> {Some(21 * 18), None}, start |-> Morning,
      walls |-> {Morning}, events |-> {}, durs |-> {0}, idles |-> {0, 1},
      writes |-> {TRUE}, connected |-> {FALSE}, oks |-> BOOLEAN, msgs |-> {<<>>},
      file |-> None, until |-> MaxTime]}

\* The BME280 reading in eighteenths of a degree C that is f tenths of a degree F.
Reading(f) == Some(f - 32 * 10)

\* Clock chip and BME280 are found; the settings file holds the range 60..75;
\* the BME280 reads 58, 59, 60, 61, 61.5, 70, 74 or 75 F; task bodies take no
\* time.
CtlEnvs ==
    {[i2c |-> TRUE, bme |-> TRUE,
      readings |-> {Reading(580), Reading(590), Reading(600), Reading(610),
                    Reading(615), Reading(700), Reading(740), Reading(750)},
      start |-> Morning, walls |-> {Morning}, events |-> {}, durs |-> {0},
      idles |-> {0, 1}, writes |-> {TRUE}, connected |-> {FALSE}, oks |-> BOOLEAN,
      msgs |-> {<<>>}, file |-> Some(json_dumps([temp_high |-> 75, temp_low |-> 60])),
      until |-> MaxTime]}

\* A message on the topic of the kitchen sensor: 100 F.
Kitchen == [k \in {"kitchen"} |-> Some(1000)]

\* The clock chip is found and the BME280 is not; the network is up and the
\* broker accepts every connection; task bodies take no time.
NetEnvs ==
    {[i2c |-> TRUE, bme |-> FALSE, readings |-> {Some(21 * 18)}, start |-> Morning,
      walls |-> {Morning}, events |-> {}, durs |-> {0}, idles |-> {0, 1},
      writes |-> {TRUE}, connected |-> {TRUE}, oks |-> {TRUE}, msgs |-> {<<>>, Kitchen},
      file |-> None, until |-> MaxTime]}

\* The handlers called one by one: the BME280 reads 70 F, the broker delivers
\* nothing or 100 F for the kitchen, the network is up or down.
UnitEnv ==
    [i2c |-> TRUE, bme |-> TRUE, readings |-> {Reading(700)}, start |-> Morning,
     walls |-> {Morning}, events |-> {}, durs |-> {0}, idles |-> {0},
     writes |-> {TRUE}, connected |-> BOOLEAN, oks |-> BOOLEAN,
     msgs |-> {<<>>, Kitchen}, file |-> None, until |-> MaxTime, boot |-> 0,
     times |-> {290, 300}]

\* Calls at 0, 290 and 300 s; calls at 0, 119 and 120 s, the low setpoint at
\* the default temperature; calls at 600 and 601 s after power-up.
UnitEnvs ==
    {UnitEnv,
     [UnitEnv EXCEPT !.times = {119, 120},
                     !.file = Some(json_dumps([temp_high |-> 80, temp_low |-> 70]))],
     [UnitEnv EXCEPT !.boot = 600, !.times = {601}]}

\* The state after Thermostat(), Settings.load having logged its line.
SetStart(E) ==
    /\ env \in E
    /\ clock = env.boot
    /\ pc = IF Settings_load(env.file).raised THEN "crashed" ELSE "unit"
    /\ task_queue = StartQueue(env, env.boot)
    /\ temperatures = NoTemperatures
    /\ target_temperature = None
    /\ data = Settings_load(env.file).data
    /\ dirty = FALSE
    /\ file = env.file
    /\ saved = NoSave
    /\ feeds = 0
    /\ client = None
    /\ socket_pool = None
    /\ last_advertisement = 0
    /\ index = find_index(env.start)
    /\ commands = <<>>
    /\ pump = NoCommand
    /\ selected = <<>>
    /\ changed = FALSE
    /\ logged = IF Settings_load(env.file).raised THEN EmptyBag
                ELSE SetToBag({[level |-> IF Settings_load(env.file).line = "Loaded"
                                          THEN "DEBUG" ELSE "ERROR",
                                text |-> Settings_load(env.file).line,
                                about |-> "settings"]})
    /\ polled = NoPoll
    /\ last = NoRun
    /\ runs = [n \in TaskNames |-> 0]
    /\ late = {}

\* The settings called one by one: the file is missing, is not JSON, holds
\* the number 42 or holds a low setpoint of 62; a write succeeds or fails; the
\* keys set are the two setpoints and one the settings do not have.
SetEnvs ==
    {[UnitEnv EXCEPT !.file = f, !.writes = BOOLEAN, !.until = SetTime] @@
       [names |-> {"temp_low", "temp_high", "colour"}, values |-> {60, 62}] :
        f \in {None, Some(NotJson), Some(JsonNumber),
               Some(json_dumps([temp_low |-> 62]))}}

\* The buttons pressed one by one, the schedule passing 08:00: no settings
\* file, and none can be written.
PanelEnvs ==
    {[UnitEnv EXCEPT !.writes = {FALSE}, !.until = PanelTime,
                     !.walls = {Morning, Eight},
                     !.events = {PresetEvent("Sleep"), PresetEvent("Away"),
                                 PresetEvent("Home"), LowEvent(1), LowEvent(0 - 1),
                                 HighEvent(1), HighEvent(0 - 1)}]}

\* Neither the clock chip nor the BME280 is found; the program starts at
\* 07:59 and the wall clock may pass 08:00, the schedule then selecting Away;
\* the settings file can be written or not; task bodies take no time.
SaveEnvs ==
    {[i2c |-> FALSE, bme |-> FALSE, readings |-> {Some(21 * 18)}, start |-> Morning,
      walls |-> {Morning, Eight}, events |-> {}, durs |-> {0}, idles |-> {0, 1},
      writes |-> BOOLEAN, connected |-> {FALSE}, oks |-> BOOLEAN, msgs |-> {<<>>},
      file |-> None, until |-> SaveTime]}

\* The buttons pressed and the BME280 polled one by one: the settings file
\* holds the range of Home, 68..75; the BME280 reads 68, 68.5, 70 or 75 F, or
\* 68 or 68.5 F only.
RangeEnvs ==
    {[UnitEnv EXCEPT !.file = Some(json_dumps([temp_high |-> 75, temp_low |-> 68])),
                     !.until = RangeTime,
                     !.readings = r,
                     !.events = {PresetEvent("Home"), LowEvent(1), HighEvent(0 - 1)}] :
        r \in {{Reading(680), Reading(685), Reading(700), Reading(750)},
               {Reading(680), Reading(685)}}}

\* The schedule over a day that starts at 07:30: calls are made every hour
\* from then on, Home is the preset chosen by hand, the settings file can be written.
DayEnvs ==
    {[UnitEnv EXCEPT !.start = [tm_hour |-> 7, tm_min |-> 30],
                     !.until = DayTime,
                     !.times = {3600 * k : k \in 1..24},
                     !.events = {PresetEvent("Home")}]}

\* Bursts of set_range calls: the settings file holds the range of Home,
\* 68..75, the setpoints set are 68, 70 or 75, a write succeeds or fails.
BurstEnvs ==
    {[UnitEnv EXCEPT !.file = Some(json_dumps([temp_high |-> 75, temp_low |-> 68])),
                     !.writes = BOOLEAN,
                     !.until = BurstTime] @@
       [names |-> {"temp_low", "temp_high"}, values |-> {68, 70, 75}]}

Init == Start(SchedEnvs)

Next == Feed \/ Run \/ GuiPoll

Spec == Init /\ [][Next]_vars

UnitNext ==
    \/ CallNetworkConnect \/ CallMqttConnect \/ CallPollMqtt \/ CallAdvertise
    \/ CallPollLocal \/ Tick

\* The handlers of the network, of MQTT and of the temperature, one by one.
UnitSpec == UnitStart(UnitEnvs) /\ [][UnitNext]_vars

SetNext == CallSet \/ CallSave \/ CallSetRange \/ RunSaveTask

\* The operations of the settings, one by one.
SetSpec == SetStart(SetEnvs) /\ [][SetNext]_vars

PanelNext == Press \/ CallSchedulerPoll \/ RunSaveTask

\* The buttons of the main page and the schedule, one by one.
PanelSpec == SetStart(PanelEnvs) /\ [][PanelNext]_vars

\* The main loop of a thermostat whose schedule changes the settings.
SaveSpec == Start(SaveEnvs) /\ [][Next]_vars

RangeNext == Press \/ CallPollLocal \/ RunSaveTask

\* The buttons of the main page and the temperature updates, one by one.
RangeSpec == SetStart(RangeEnvs) /\ [][RangeNext]_vars

DayNext == DayPoll \/ DayTick \/ Press \/ DaySave

\* The schedule polled and the presets chosen by hand, over a day.
DaySpec == SetStart(DayEnvs) /\ [][DayNext]_vars

BurstNext == BurstSetRange \/ RunSaveTask

\* Bursts of set_range calls, each followed by the saves it scheduled.
BurstSpec == SetStart(BurstEnvs) /\ [][BurstNext]_vars

\* The same, the main loop going on: a "settings save" Task that is due is run,
\* and of the writes attempted again and again one succeeds.
PersistSpec ==
    /\ SetStart(BurstEnvs)
    /\ [][BurstNext]_vars
    /\ WF_vars(RunSaveTask)
    /\ SF_vars(RunSaveTask /\ ~dirty')

\* The control policy, on a thermostat with its own sensor.
CtlSpec == Start(CtlEnvs) /\ [][Next]_vars

\* The main loop of a thermostat whose network is up, time advancing.
NetSpec ==
    /\ Start(NetEnvs)
    /\ [][Next]_vars
    /\ WF_vars(Feed) /\ WF_vars(Run) /\ WF_vars(GuiPoll)
    /\ SF_vars(GuiPoll /\ clock' > clock)

\* The main loop goes on for as long as no exception ends it, and time advances.
LiveSpec ==
    /\ Start(LiveEnvs)
    /\ [][Next]_vars
    /\ WF_vars(Feed) /\ WF_vars(Run) /\ WF_vars(GuiPoll)
    /\ SF_vars(GuiPoll /\ clock' > clock)

\* ------------------------------------------------------------------ scheduler claims

\* A step that is one call of TaskRunner.run.
RunStep == pc = "run" /\ pc' # "run"

Dues(q) == {0 - e.priority : e \in BagToSet(q)}
Earliest(q) == CHOOSE d \in Dues(q) : \A x \in Dues(q) : d <= x

RECURSIVE SumOver(_, _)
SumOver(f, S) == IF S = {} THEN 0
                 ELSE LET x == CHOOSE y \in S : TRUE IN f[x] + SumOver(f, S \ {x})

\* C1: a call of TaskRunner.run executes at most one task, only when the
\* earliest due time of the queue is at or before now, the clock at the start of
\* the call; the task executed is an entry of that earliest due time, and it is
\* the only task whose execution count changes.
C1_RunsOnlyEarliestDue ==
    [][RunStep =>
        /\ Len(last'.ran) <= 1
        /\ SumOver(runs', TaskNames) = SumOver(runs, TaskNames) + Len(last'.ran)
        /\ last'.ran # <<>> =>
              /\ Earliest(task_queue) <= clock
              /\ [item |-> last'.ran[1], priority |-> 0 - Earliest(task_queue)]
                     \in BagToSet(task_queue)
              /\ runs'[last'.ran[1].name] = runs[last'.ran[1].name] + 1]_vars

\* C1 witness: a task was executed by a call that found several entries queued.
C1_Witness ==
    /\ last.called /\ last.ran # <<>>
    /\ Cardinality(BagToSet(task_queue)) > 2
    /\ last.run_time < last.now

C3_NoBackwardTimeTravel ==
    last.next # None => last.next[1] >= last.end

\* The task is queued with a due time after the time followed.
Beyond(task) ==
    \E e \in BagToSet(task_queue) : e.item = task /\ 0 - e.priority > MaxTime

\* C4 as stated, for the time followed: whatever the sensor does, every
\* repeating task goes on being executed, until its due time is after MaxTime.
C4_EveryTaskKeepsRunning ==
    []<>(\A td \in StartTasks(env) : Beyond(td[1]))

\* C5 as stated: after T seconds of the loop, each repeating task of period p
\* has been executed at least floor(T / p) - 1 times.
C5_Original ==
    \A td \in StartTasks(env) :
        runs[td[1].name] >= (clock \div td[1].period) - 1

\* The task is queued and at most its period overdue.
NotOverdue(task) ==
    \E e \in BagToSet(task_queue) :
        e.item = task /\ clock - (0 - e.priority) <= task.period

\* C5 amended: a repeating task of period p first due at time s, that was never
\* executed more than p after its due time and is at most p overdue now, has
\* been executed at least floor((T - s) / p) - 1 times after T seconds.
C5_FairShare ==
    \A td \in StartTasks(env) :
        (td[1].name \notin late /\ NotOverdue(td[1])) =>
            runs[td[1].name] >= ((clock - td[2]) \div td[1].period) - 1

\* C5 witness: a task executed three times or more, never over a period late,
\* has exactly floor((T - s) / p) - 1 executions.
C5_Witness ==
    \E td \in StartTasks(env) :
        /\ td[1].name \notin late /\ NotOverdue(td[1])
        /\ runs[td[1].name] >= 3
        /\ runs[td[1].name] = ((clock - td[2]) \div td[1].period) - 1

\* C6: when the earliest due time is after now, TaskRunner.run executes no
\* task, leaves the queue as it is and takes no time.
C6_NotDueLeavesQueue ==
    [][(RunStep /\ Earliest(task_queue) > clock) =>
        /\ last'.ran = <<>>
        /\ task_queue' = task_queue
        /\ runs' = runs
        /\ clock' = clock
        /\ pc' = "gui"]_vars

\* C6 witness: a call of run found the earliest entry not yet due.
C6_Witness == last.called /\ last.ran = <<>> /\ last.run_time > last.now

\* C7: the queue holds at most one entry for any task.
C7_OneEntryPerTask == \A task \in Items(task_queue) : EntriesOf(task_queue, task) = 1

\* C7 witness: a running task added another task, and was itself reinserted.
C7_Witness ==
    /\ last.ran # <<>> /\ last.next # None
    /\ last.ran[1].name = "scheduler poll"
    /\ SaveTasks(task_queue) # {}

\* C8: a repeating task executed at now with due time due and period d is
\* reinserted at due + d when due + d >= now and at now + d otherwise; its due
\* time grows by at least d, and by exactly d when it ran at most d late.
C8_PhaseKept ==
    last.next # None =>
        LET due == last.run_time
            now == last.now
            d == last.run_after[1]
            next == last.next[1]
        IN /\ next = (IF due + d >= now THEN due + d ELSE now + d)
           /\ next - due >= d
           /\ now - due <= d => next - due = d

\* C8 witness: a repeating task ran more than its period late.
C8_Witness ==
    /\ last.next # None
    /\ IsRepeatTask(last.ran[1])
    /\ last.now - last.run_time > last.run_after[1]

\* ------------------------------------------------------------------ control claims

\* A step that is one temperature update: a call of TaskRunner.run that executed
\* poll_local_temp or poll_mqtt to its end.
UpdateStep ==
    /\ RunStep
    /\ last'.ran # <<>>
    /\ last'.ran[1].name \in {"local temp poll", "mqtt poll"}
    /\ pc' # "crashed"

\* The fused temperature of the update a step makes.
Fused == overall_temperature(temperatures', clock')

Sent(cmds) == {cmds[i] : i \in DOMAIN cmds}
Ops(cmds) == {c.op : c \in Sent(cmds)}

\* degrees F, as the fraction of eighteenths of a degree C sent to the heat pump
InCelsius(f) == Frac(Deg(f) - 32 * 10)

\* C9: from Idle (target_temperature None) an update with fused temperature T
\* does exactly one of: T <= low: mode HEAT, power on, target low + 1; else
\* T >= high: mode COOL, power on, target high - 1; else it stays Idle and
\* commands power off.
C9_FromIdle ==
    [][(UpdateStep /\ target_temperature = None) =>
        LET T == Fused
            low == data.temp_low
            high == data.temp_high
            sent == Sent(commands')
        IN IF FracLE(T, Frac(Deg(low)))
           THEN /\ target_temperature' = Some(low + 1)
                /\ {SetMode("HEAT"), SetPower(TRUE), SetTemperatureC(InCelsius(low + 1))}
                       \subseteq sent
                /\ SetMode("COOL") \notin sent /\ SetPower(FALSE) \notin sent
           ELSE IF FracLE(Frac(Deg(high)), T)
                THEN /\ target_temperature' = Some(high - 1)
                     /\ {SetMode("COOL"), SetPower(TRUE),
                         SetTemperatureC(InCelsius(high - 1))} \subseteq sent
                     /\ SetMode("HEAT") \notin sent /\ SetPower(FALSE) \notin sent
                ELSE /\ target_temperature' = None
                     /\ SetPower(FALSE) \in sent
                     /\ SetPower(TRUE) \notin sent
                     /\ Ops(commands') \cap {"set_mode", "set_temperature_c"} = {}]_vars

\* C9 witness: an update from Idle at exactly the low setpoint started heating.
C9_Witness ==
    /\ last.ran # <<>> /\ last.ran[1].name = "local temp poll"
    /\ last.before = None
    /\ FracEQ(overall_temperature(temperatures, clock), Frac(Deg(data.temp_low)))
    /\ target_temperature = Some(data.temp_low + 1)
    /\ SetMode("HEAT") \in Sent(commands)

\* C10: from Heating or Cooling an update with fused temperature T returns to
\* Idle (power off, target cleared) if and only if low + 1 < T < high - 1, and
\* leaves the target as it is otherwise; with low 60 and high 75 it returns at
\* 61.5 and neither at 61.0 nor at 74.0.
C10_StrictExit ==
    [][(UpdateStep /\ target_temperature # None) =>
        LET T == Fused
            low == data.temp_low
            high == data.temp_high
            inside == FracLT(Frac(Deg(low + 1)), T) /\ FracLT(T, Frac(Deg(high - 1)))
        IN /\ (target_temperature' = None) <=> inside
           /\ inside => SetPower(FALSE) \in Sent(commands')
           /\ ~inside => /\ target_temperature' = target_temperature
                         /\ SetPower(FALSE) \notin Sent(commands')
           /\ (low = 60 /\ high = 75) =>
                 /\ FracEQ(T, Frac(615)) => target_temperature' = None
                 /\ FracEQ(T, Frac(610)) => target_temperature' # None
                 /\ FracEQ(T, Frac(740)) => target_temperature' # None]_vars

\* C10 witness: with the range 60..75, an update at 61.5 F in Heating returned
\* to Idle.
C10_Witness ==
    /\ last.ran # <<>> /\ last.ran[1].name = "local temp poll"
    /\ last.before = Some(61)
    /\ data.temp_low = 60 /\ data.temp_high = 75
    /\ FracEQ(overall_temperature(temperatures, clock), Frac(615))
    /\ target_temperature = None
    /\ SetPower(FALSE) \in Sent(commands)

\* How many commands of that kind were sent.
CountOp(cmds, op) == Cardinality({i \in DOMAIN cmds : cmds[i].op = op})

\* The fused temperature is strictly inside the dead-band low + 1 .. high - 1.
Inside(T) ==
    /\ FracLT(Frac(Deg(data.temp_low + 1)), T)
    /\ FracLT(T, Frac(Deg(data.temp_high - 1)))

\* C11: in Heating or Cooling, an update whose fused temperature is not strictly
\* inside the dead-band sends nothing but the remote temperature and keeps the
\* target; an update that enters Heating or Cooling sends set_mode, set_power
\* and set_temperature_c exactly once each.
C11_NoRedundantCommands ==
    [][UpdateStep =>
        /\ (target_temperature # None /\ ~Inside(Fused)) =>
              /\ Ops(commands') = {"set_remote_temperature_c"}
              /\ target_temperature' = target_temperature
        /\ (target_temperature = None /\ target_temperature' # None) =>
              /\ CountOp(commands', "set_mode") = 1
              /\ CountOp(commands', "set_power") = 1
              /\ CountOp(commands', "set_temperature_c") = 1]_vars

\* C11 witness: with low 60, Heating was entered before and the sensor poll
\* that read 59 F left it as it was, sending the remote temperature alone.
C11_Witness ==
    /\ last.ran # <<>> /\ last.ran[1].name = "local temp poll"
    /\ last.before = Some(61) /\ target_temperature = Some(61)
    /\ data.temp_low = 60
    /\ FracEQ(overall_temperature(temperatures, clock), Frac(590))
    /\ Ops(commands) = {"set_remote_temperature_c"}

\* C12: from Heating an update with T >= high, and from Cooling an update with
\* T <= low, keeps the target and sends no mode or power command; Heating and
\* Cooling are entered from Idle only.
C12_NoDirectSwitch ==
    [][UpdateStep =>
        LET T == Fused
            low == data.temp_low
            high == data.temp_high
            quiet == /\ target_temperature' = target_temperature
                     /\ Ops(commands') \cap {"set_mode", "set_power"} = {}
        IN /\ (target_temperature = Some(low + 1) /\ FracLE(Frac(Deg(high)), T)) => quiet
           /\ (target_temperature = Some(high - 1) /\ FracLE(T, Frac(Deg(low)))) => quiet
           /\ (target_temperature' # None /\ target_temperature' # target_temperature) =>
                 target_temperature = None
           /\ "set_mode" \in Ops(commands') => target_temperature = None]_vars

\* C12 witness: with the range 60..75, an update at 75 F found the controller
\* heating and left it heating.
C12_Witness ==
    /\ last.ran # <<>> /\ last.ran[1].name = "local temp poll"
    /\ last.before = Some(61) /\ target_temperature = Some(61)
    /\ data.temp_low = 60 /\ data.temp_high = 75
    /\ FracEQ(overall_temperature(temperatures, clock), Frac(750))

\* A temperature in Fahrenheit tenths as the Celsius value of the heat pump.
CelsiusOf(T) == [num |-> T.num - 32 * 10 * T.den, den |-> T.den]

\* C13: every update, from the sensor poll or the MQTT poll and in every control
\* state, sends set_remote_temperature_c exactly once, as its last command, with
\* the fused temperature of that update.
C13_RemoteTemperatureLast ==
    [][UpdateStep =>
        /\ commands' # <<>>
        /\ commands'[Len(commands')] = SetRemoteTemperatureC(CelsiusOf(Fused))
        /\ CountOp(commands', "set_remote_temperature_c") = 1]_vars

\* C13 witness: an MQTT poll in Cooling sent the remote temperature, 75 F in
\* Celsius, and nothing else.
C13_Witness ==
    /\ last.ran # <<>> /\ last.ran[1].name = "mqtt poll"
    /\ last.before = Some(74) /\ target_temperature = Some(74)
    /\ commands = <<SetRemoteTemperatureC(Frac(750 - 320))>>

\* ------------------------------------------------------------------ aggregator claims

\* A step that is one temperature update by a handler called directly.
UnitUpdateStep ==
    /\ pc = "unit" /\ pc' = "unit"
    /\ last'.ran # <<>>
    /\ last'.ran[1].name \in {"local temp poll", "mqtt poll"}

\* The sources whose reading is less than 120 s old after the step.
Live == {k \in DOMAIN temperatures' : clock' - temperatures'[k].timestamp < 120}

\* The values of the table after the step.
Values == [k \in DOMAIN temperatures' |-> temperatures'[k].value]

\* C14: the fused temperature is the unweighted mean of exactly the readings of
\* the table that are less than 120 s old.
C14_MeanOfFresh ==
    [][(UnitUpdateStep /\ Live # {}) =>
        /\ FracEQ(Fused, [num |-> SumOver(Values, Live), den |-> Cardinality(Live)])
        /\ commands'[Len(commands')] = SetRemoteTemperatureC(CelsiusOf(Fused))]_vars

\* C14 witness: with the kitchen at 100 F read 5 minutes ago and the sensor at
\* 70 F read 10 s ago, the update gave 70 F.
C14_Witness ==
    /\ last.ran # <<>> /\ last.ran[1].name = "mqtt poll"
    /\ DOMAIN temperatures = {"head", "kitchen"}
    /\ temperatures["kitchen"] = Datum(1000, clock - 300)
    /\ temperatures["head"] = Datum(700, clock - 10)
    /\ commands # <<>>
    /\ commands[Len(commands)] = SetRemoteTemperatureC(CelsiusOf(Frac(700)))

\* A step that calls poll_local_temp or poll_mqtt directly, whatever its end.
UnitPollStep ==
    /\ pc = "unit"
    /\ last'.ran # <<>>
    /\ last'.ran[1].name \in {"local temp poll", "mqtt poll"}

\* The target the control policy gives on the temperature T.
Decided(T) ==
    IF target_temperature = None
    THEN IF FracLE(T, Frac(Deg(data.temp_low))) THEN Some(data.temp_low + 1)
         ELSE IF FracLE(Frac(Deg(data.temp_high)), T) THEN Some(data.temp_high - 1)
         ELSE None
    ELSE IF Inside(T) THEN None ELSE target_temperature

\* C15: when the table is empty or every reading is 120 s old or older, the
\* update raises nothing, its fused temperature is 70 F, and the control policy
\* decides on 70 F as on any other value.
C15_DefaultWhenNoneFresh ==
    [][(UnitPollStep /\ Live = {}) =>
        /\ pc' = "unit"
        /\ FracEQ(Fused, Frac(Deg(70)))
        /\ commands' # <<>>
        /\ commands'[Len(commands')] = SetRemoteTemperatureC(CelsiusOf(Frac(Deg(70))))
        /\ target_temperature' = Decided(Frac(Deg(70)))]_vars

\* C15 witness: the only reading of the table, 100 F from the kitchen, had
\* started cooling; once it was stale the update ran on 70 F and went back to
\* Idle.
C15_Witness ==
    /\ last.ran # <<>> /\ last.ran[1].name = "mqtt poll"
    /\ DOMAIN temperatures = {"kitchen"}
    /\ clock - temperatures["kitchen"].timestamp >= 120
    /\ last.before = Some(data.temp_high - 1) /\ target_temperature = None
    /\ commands[Len(commands)] = SetRemoteTemperatureC(CelsiusOf(Frac(Deg(70))))

\* C16 as stated: every update that falls back to the default, no reading
\* being under 120 s old, logs a diagnostic; the lines of overall_temperature
\* are the "ignore" lines.
C16_FallbackLogged ==
    [][(UpdateStep /\ Live = {}) => Lines(logged', "ignore") > 0]_vars

\* C17: the table holds one reading per source name; no step removes a name;
\* a reading changes only by being replaced with one recorded in that step; a
\* sensor poll leaves the reading it made under "head" and an MQTT poll the
\* readings it returned under their locations, all stamped with the clock.
C17_TableOnlyGrows ==
    [][/\ DOMAIN temperatures \subseteq DOMAIN temperatures'
       /\ \A k \in DOMAIN temperatures :
             \/ temperatures'[k] = temperatures[k]
             \/ UnitUpdateStep /\ temperatures'[k].timestamp = clock'
       /\ (UnitUpdateStep /\ last'.ran[1].name = "local temp poll") =>
             /\ DOMAIN temperatures' = DOMAIN temperatures \cup {"head"}
             /\ \E r \in env.readings :
                   temperatures'["head"] = Datum(r[1] + 32 * 10, clock')
       /\ (UnitUpdateStep /\ last'.ran[1].name = "mqtt poll") =>
             /\ DOMAIN temperatures' = DOMAIN temperatures \cup DOMAIN polled'.retval
             /\ \A k \in DOMAIN polled'.retval :
                   temperatures'[k] = Datum(polled'.retval[k], clock')]_vars

\* C17 witness: the sensor poll recorded a reading while the reading of the
\* kitchen, stale for long, was still in the table.
C17_Witness ==
    /\ last.ran # <<>> /\ last.ran[1].name = "local temp poll"
    /\ DOMAIN temperatures = {"head", "kitchen"}
    /\ temperatures["head"].timestamp = clock
    /\ clock - temperatures["kitchen"].timestamp >= 120
    /\ Fresh(temperatures, clock) = {"head"}

\* ------------------------------------------------------------------ recovery claims

\* A step that is one call of Mqtt.poll, through poll_mqtt, that raised nothing.
PollCall ==
    /\ pc = "unit" /\ pc' = "unit"
    /\ last'.ran = <<MqttPoll>>

\* C18 as stated: a poll of a session in which loop() or a publish failed ends
\* with the session discarded and returns an empty list.
C18_FailedPollReturnsNothing ==
    [][(PollCall /\ polled'.had /\ polled'.failed) =>
        /\ client' = None
        /\ DOMAIN polled'.retval = {}]_vars

\* A step that calls Mqtt.poll (through poll_mqtt) or Mqtt.advertise, whatever
\* its end.
RecoveryCall ==
    /\ pc = "unit"
    /\ last'.ran \in {<<MqttPoll>>, <<MqttAdvertise>>}

\* C19: no call of Mqtt.poll or Mqtt.advertise lets an exception of the
\* transport out, a failing disconnect() and a second recovery on a session
\* already discarded included; whenever recovery ran, the session ends
\* discarded.
C19_RecoveryNeverRaises ==
    [][RecoveryCall =>
        /\ pc' = "unit"
        /\ Lines(logged', "MQTT loop() raised") >= 1 => client' = None
        /\ Lines(logged', "MQTT disconnect() raised")
               <= Lines(logged', "MQTT loop() raised")]_vars

\* C19 witness: in one poll advertise failed, its disconnect() failed too, and
\* recovery ran a second time on the discarded session.
C19_Witness ==
    /\ pc = "unit"
    /\ last.ran = <<MqttPoll>>
    /\ Lines(logged, "MQTT loop() raised") = 2
    /\ Lines(logged, "MQTT disconnect() raised") = 2
    /\ last_advertisement = clock
    /\ client = None

ConnectCall == pc = "unit" /\ last'.called /\ last'.ran = <<MqttConnect>>

\* C21: Mqtt.connect called while a session exists does nothing: it makes no
\* connection attempt (no "MQTT connecting" line, no error line) and leaves the
\* session and every other field as they were.  A connect attempt that fails
\* leaves client None, and Mqtt.poll called with client None returns the empty
\* list without calling loop() or publish(), the session still None.
C21_ConnectNoOpWithSession ==
    [][/\ (ConnectCall /\ client # None) =>
            /\ client' = client
            /\ logged' = EmptyBag
            /\ pc' = "unit"
            /\ UNCHANGED <<task_queue, temperatures, target_temperature, data, dirty,
                           file, saved, socket_pool, last_advertisement, index, commands,
                           polled>>
       /\ (ConnectCall /\ Lines(logged', "Failed to connect") > 0) => client' = None
       /\ (PollCall /\ client = None) =>
            /\ polled' = [NoPoll EXCEPT !.called = TRUE]
            /\ client' = None
            /\ pc' = "unit"]_vars

\* connect() was called on an existing session and did nothing, after an
\* earlier poll had found no session although the socket pool existed.
C21_Witness ==
    /\ pc = "unit"
    /\ last.ran = <<MqttConnect>>
    /\ client # None
    /\ logged = EmptyBag
    /\ socket_pool # None
    /\ polled.called /\ ~polled.had

\* ------------------------------------------------------------------ failure claims

\* C22: no failure of a sensor read, of the transport or of the settings store
\* gets out of TaskRunner.run: the main loop is never ended by an exception.
C22_NoFailurePropagates == pc # "crashed"

\* ------------------------------------------------------------------ settings claims

\* A call of Settings.set, directly.
SetCall == pc = "unit" /\ last'.called /\ last'.ran = <<Op("Settings.set")>>

\* A call of Settings.save, directly or as the body of a "settings save" Task.
SaveCall ==
    /\ pc = "unit" /\ last'.called /\ last'.ran # <<>>
    /\ last'.ran[1].name \in {"Settings.save", "settings save"}

\* The call before this one was a call of Settings.save too.
SaveBefore ==
    /\ last.called /\ last.ran # <<>>
    /\ last.ran[1].name \in {"Settings.save", "settings save"}

\* C23: Settings.set of a key the settings have marks them dirty exactly when
\* the value differs from the stored one, and stores the value; a call with
\* the stored value, such as the second of two equal calls in a row, changes
\* nothing; Settings.save with the dirty flag clear opens no file and changes
\* nothing.
C23_SetMarksDirtyOnChange ==
    [][/\ (SetCall /\ last'.args[1] \in DOMAIN data) =>
            LET name == last'.args[1]
                value == last'.args[2]
            IN /\ dirty' = (dirty \/ value # data[name])
               /\ data' = [data EXCEPT ![name] = value]
               /\ pc' = "unit"
               /\ (value = data[name] \/ (last.ran = last'.ran /\ last.args = last'.args))
                      => UNCHANGED <<data, dirty, file, saved, task_queue,
                                     target_temperature>>
       /\ (SaveCall /\ ~dirty) =>
            /\ ~saved'.wrote
            /\ logged' = EmptyBag
            /\ UNCHANGED <<data, dirty, file>>]_vars

\* set("temp_low", 62) made the settings dirty, a save wrote them, and
\* set("temp_low", 62) called again left them clean.
C23_Witness ==
    /\ last.ran = <<Op("Settings.set")>>
    /\ last.args = <<"temp_low", 62>>
    /\ data.temp_low = 62
    /\ ~dirty
    /\ env.file = None
    /\ file = Some(json_dumps(data))

\* C24: Settings.save never raises and never changes the settings in memory;
\* a save of dirty settings that succeeds writes them and clears the dirty
\* flag, and a save called right after it opens no file; a save that fails
\* logs the failure and leaves the dirty flag set.
C24_SaveIdempotentAndSilent ==
    [][SaveCall =>
         /\ pc' = "unit"
         /\ data' = data
         /\ saved'.called
         /\ saved'.wrote = dirty
         /\ (dirty /\ Lines(logged', "Saving") = 0) =>
                /\ ~dirty'
                /\ file' = Some(json_dumps(data))
         /\ (dirty /\ Lines(logged', "Saving") > 0) =>
                /\ dirty'
                /\ file' \in {file, Some(NotJson)}
         /\ (SaveBefore /\ saved.wrote /\ ~dirty) =>
                /\ ~saved'.wrote
                /\ UNCHANGED <<dirty, file>>]_vars

\* A save of dirty settings failed, its write cut short: the failure is
\* logged, the settings are still dirty and hold the value set.
C24_Witness ==
    /\ pc = "unit"
    /\ last.ran = <<Op("Settings.save")>>
    /\ saved.wrote
    /\ Lines(logged, "Saving") = 1
    /\ dirty
    /\ data.temp_low = 62
    /\ env.file = None
    /\ file = Some(NotJson)

\* C25: Settings.set of a key the settings do not have fails with the
\* assertion and changes neither a stored value nor the dirty flag nor the
\* file.
C25_UnknownKeyIsFatal ==
    [][(SetCall /\ last'.args[1] \notin DOMAIN data) =>
         /\ pc' = "crashed"
         /\ UNCHANGED <<data, dirty, file, saved, task_queue, target_temperature>>]_vars

\* set("colour", 62) failed on settings that were dirty and stay as they were.
C25_Witness ==
    /\ pc = "crashed"
    /\ last.ran = <<Op("Settings.set")>>
    /\ last.args = <<"colour", 62>>
    /\ dirty
    /\ DOMAIN data = {"temp_low", "temp_high"}

\* The settings a file of this text stands for: its keys over the defaults, or
\* the defaults alone when there is no file or no JSON object in it.
Persisted(f) ==
    IF f # None /\ f[1].json = "object" THEN f[1].obj @@ DefaultData ELSE DefaultData

\* C26: loading the settings never fails: after Settings(), whatever the file,
\* no exception has been raised and the dirty flag is clear; the settings are
\* the defaults when the file is missing or holds no valid settings, and the
\* keys of the file over the defaults when it is valid.
C26_LoadNeverFails ==
    ~last.called =>
        /\ pc # "crashed"
        /\ ~dirty
        /\ data = Persisted(file)

\* C27: whenever the dirty flag is clear, the settings in memory are the ones
\* last loaded from the file or last written to it, or the defaults when the
\* file gave nothing.
C27_CleanMeansPersisted == ~dirty => data = Persisted(file)

\* The file was not JSON at start-up; set_range changed the high setpoint,
\* and the "settings save" Task wrote the settings: clean, and as in the file.
C27_Witness ==
    /\ pc = "unit"
    /\ env.file = Some(NotJson)
    /\ last.ran # <<>> /\ last.ran[1].name = "settings save"
    /\ ~dirty
    /\ data.temp_high = 62
    /\ file = Some(json_dumps(data))

\* ------------------------------------------------------------------ setpoint claims

\* C28: from the built-in defaults, after any sequence of presets selected
\* with the buttons or by the daily schedule and of presses of the up and
\* down buttons, the low setpoint is below the high one.
C28_LowBelowHigh == data.temp_low < data.temp_high

\* The up button of the low setpoint was pressed at 73: the low setpoint is
\* 74 and the high one was moved up to 77.
C28_Witness ==
    /\ pc = "unit"
    /\ last.ran = <<Op("button.pressed")>>
    /\ last.args = <<LowEvent(1)>>
    /\ data.temp_low = 74
    /\ data.temp_high = 77

\* ------------------------------------------------------------------ main loop claims

\* C29: the watchdog is fed exactly once before each call of TaskRunner.run,
\* whether the call before found a task due or not, and a call executes at
\* most one task: the feed is the first step of each iteration, and between
\* two feeds there is one call of TaskRunner.run.
C29_FedOncePerIteration ==
    [][/\ RunStep => (feeds = 1 /\ feeds' = 0 /\ Len(last'.ran) <= 1)
       /\ (pc = "feed") => (feeds = 0 /\ feeds' = 1 /\ pc' = "run")
       /\ (pc = "gui") => (feeds' = 0 /\ pc' = "feed")]_vars

\* TaskRunner.run found no task due, Gui.poll ran, and the watchdog was fed
\* again before the next call of TaskRunner.run.
C29_Witness ==
    /\ pc = "run"
    /\ feeds = 1
    /\ last.called
    /\ last.ran = <<>>

C37_DeadBandNotEmpty ==
    /\ data.temp_high - data.temp_low > 2
    /\ \E t \in (data.temp_low * 10)..(data.temp_high * 10) :
          GoalAchieved(Frac(t), data.temp_low, data.temp_high)

\* The down button of the high setpoint was pressed at 71 over 68: the high
\* setpoint is 70 and the low one was moved down to 67, three apart.
C37_Witness ==
    /\ pc = "unit"
    /\ last.ran = <<Op("button.pressed")>>
    /\ last.args = <<HighEvent(0 - 1)>>
    /\ data.temp_low = 67
    /\ data.temp_high = 70

\* ------------------------------------------------------------------ queue claims

\* The repeating tasks that hold an entry of the queue.
Repeating(q) == {t \in Items(q) : IsRepeatTask(t)}

\* C38: whenever TaskRunner.run is about to be called the queue is not empty:
\* it holds the repeating tasks added at start-up, the "mqtt connect" and
\* "mqtt poll" tasks among them, whatever one-shot task was executed.
C38_QueueNeverEmpty ==
    pc = "run" =>
        /\ task_queue # EmptyBag
        /\ {MqttConnect, MqttPoll} \subseteq Repeating(task_queue)
        /\ Repeating(task_queue) = {td[1] : td \in StartTasks(env)}

\* TaskRunner.run is about to be called after the "settings save" Task was
\* executed and left the queue, on a thermostat without I2C bus.
C38_Witness ==
    /\ pc = "run"
    /\ ~env.i2c
    /\ runs["settings save"] = 1
    /\ SaveTasks(task_queue) = {}
    /\ Cardinality(Repeating(task_queue)) = 5

\* ------------------------------------------------------------------ target claims

\* C34: the control target is None, or low + 1, or high - 1 of the setpoints
\* now in force.
C34_TargetFollowsSetpoints ==
    \/ target_temperature = None
    \/ target_temperature = Some(data.temp_low + 1)
    \/ target_temperature = Some(data.temp_high - 1)

\* The low setpoint was pressed up to 69 while Heating towards 69, and the
\* update after it started Heating towards 70.
C34_Witness ==
    /\ pc = "unit"
    /\ last.ran = <<LocalTempPoll>>
    /\ data.temp_low = 69
    /\ target_temperature = Some(70)
    /\ pump.power = "on"
    /\ SaveTasks(task_queue) # {}
    /\ clock = 0

\* A press of a button.
PressStep == pc = "unit" /\ last'.called /\ last'.ran = <<Op("button.pressed")>>

\* C35: after every completed temperature update the power last commanded is
\* on exactly when the control target is set; then the mode last commanded is
\* HEAT for the target low + 1 and COOL for the target high - 1, and the last
\* set_mode was made before the last set_power.
C35_PowerFollowsTarget ==
    [][UnitUpdateStep =>
         /\ (pump'.power = "on") = (target_temperature' # None)
         /\ pump'.power \in {"on", "off"}
         /\ target_temperature' # None =>
                /\ target_temperature' = Some(data'.temp_low + 1) => pump'.mode = "HEAT"
                /\ target_temperature' = Some(data'.temp_high - 1) => pump'.mode = "COOL"
                /\ pump'.order = <<"set_mode", "set_power">>]_vars

\* After Heating, the high setpoint was pressed down to 74 and an update at
\* 75 F started Cooling towards 73: mode COOL, power on.
C35_Witness ==
    /\ pc = "unit"
    /\ last.ran = <<LocalTempPoll>>
    /\ data.temp_high = 74
    /\ target_temperature = Some(73)
    /\ pump = [mode |-> "COOL", power |-> "on", order |-> <<"set_mode", "set_power">>]
    /\ SaveTasks(task_queue) # {}
    /\ clock = 0

\* C36: a press that calls set_range clears the control target and sends
\* nothing to the heat pump, also when the setpoints stay as they were; the
\* update after a press that cleared a Heating target, at a fused temperature
\* over low and not over low + 1, switches the heat pump off and stays Idle.
C36_SetRangeClearsTarget ==
    [][/\ PressStep =>
            /\ target_temperature' = None
            /\ commands' = commands
            /\ pump' = pump
       /\ (/\ UnitUpdateStep
           /\ last.ran = <<Op("button.pressed")>>
           /\ last.before = Some(data.temp_low + 1)
           /\ FracLT(Frac(Deg(data.temp_low)), Fused)
           /\ FracLE(Fused, Frac(Deg(data.temp_low + 1)))) =>
            /\ target_temperature' = None
            /\ commands' = <<SetPower(FALSE), SetRemoteTemperatureC(CelsiusOf(Fused))>>
            /\ pump'.power = "off"]_vars

\* Heating towards 69 at 68 F, Home was pressed on the setpoints of Home, and
\* the update at 68.5 F switched the heat pump off.
C36_Witness ==
    /\ pc = "unit"
    /\ env.readings = {Reading(680), Reading(685)}
    /\ last.ran = <<LocalTempPoll>>
    /\ last.before = None
    /\ target_temperature = None
    /\ ~dirty
    /\ data = [temp_high |-> 75, temp_low |-> 68]
    /\ temperatures["head"].value = 685
    /\ pump = [mode |-> "HEAT", power |-> "off", order |-> <<"set_mode", "set_power">>]
    /\ SaveTasks(task_queue) # {}
    /\ clock = 0

\* ------------------------------------------------------------------ schedule claims

\* A call of Scheduler.poll.
DayPollStep == pc = "unit" /\ last'.called /\ last'.ran = <<SchedulerPoll>>

\* What the wall clock reads.
DayWall == localtime(env.start, clock)

\* Seconds from the start of the day followed to its 08:00.
ToEight == (8 * 60 - (env.start.tm_hour * 60 + env.start.tm_min)) * 60

\* The selections of a day started before 08:00 with every block polled:
\* none before 08:00, Away from the first poll of the block of 08:00, Sleep
\* from the first poll of the block of 22:00, nothing more up to the next 08:00.
DaySelections ==
    IF find_index(DayWall) = 0
    THEN (IF index = 0 THEN <<"Away">> ELSE <<>>)
    ELSE IF clock < ToEight THEN <<>>
    ELSE IF index = 0 - 1 THEN <<"Away", "Sleep">> ELSE <<"Away">>

\* C33: Scheduler.poll selects a preset exactly when the block index of the
\* current time differs from the index kept, the preset of the new block, and
\* otherwise leaves the setpoints, the target and the queue as they are, also
\* after a preset chosen by hand; over a day with every block polled the
\* selections are one of Away, at the first poll at or after 08:00, and one of
\* Sleep, at the first poll at or after 22:00, none at midnight.
C33_ScheduleSelectsAtBoundaries ==
    [][/\ DayPollStep =>
            /\ (selected' # selected) = (find_index(DayWall) # index)
            /\ index' = find_index(DayWall)
            /\ find_index(DayWall) # index =>
                   /\ selected' = Append(selected, DailyAt(find_index(DayWall)).preset)
                   /\ data' = [temp_high |-> Presets[DailyAt(find_index(DayWall)).preset][2],
                               temp_low |-> Presets[DailyAt(find_index(DayWall)).preset][1]]
            /\ find_index(DayWall) = index =>
                   /\ data' = data
                   /\ dirty' = dirty
                   /\ target_temperature' = target_temperature
                   /\ task_queue' = task_queue
       /\ selected' = DaySelections']_vars

\* Past midnight of a day in which Away and Sleep were selected once each,
\* Home chosen by hand after 22:00 is still in force after a poll.
C33_Witness ==
    /\ pc = "unit"
    /\ last.ran = <<SchedulerPoll>>
    /\ clock > ToEight
    /\ DayWall.tm_hour < 8
    /\ selected = <<"Away", "Sleep">>
    /\ data = [temp_high |-> 75, temp_low |-> 68]

\* ------------------------------------------------------------------ save claims

\* A call of Thermostat.set_range.
SetRangeStep == pc = "unit" /\ last'.called /\ last'.ran = <<Op("Thermostat.set_range")>>

\* A run of a "settings save" Task.
SaveRunStep ==
    /\ pc = "unit"
    /\ last'.called
    /\ last'.ran # <<>>
    /\ last'.ran[1].name = "settings save"

\* The save that runs is the first one of its burst: the step before it was a
\* call of set_range.
FirstOfBurst == last.ran = <<Op("Thermostat.set_range")>>

\* C31 as stated: the first save of a burst writes the file exactly if a
\* call of the burst changed a value, and the remaining saves do not write.
C31_WrittenOncePerBurst ==
    [][SaveRunStep =>
         IF FirstOfBurst THEN saved'.wrote = changed ELSE ~saved'.wrote]_vars

\* C31: each set_range call adds one save task due 15 s later and sets the
\* dirty flag exactly if it changes a value; a save task writes exactly if
\* the dirty flag is set, which it is for the first save of a burst when a
\* call changed a value, and for a later save only when the write of the
\* save before it failed; the flag stays set exactly when the write fails.
C31_DebouncedSave ==
    [][/\ SetRangeStep =>
            /\ Cardinality(SaveTasks(task_queue')) = Cardinality(SaveTasks(task_queue)) + 1
            /\ \A e \in BagToSet(task_queue') :
                  e \notin BagToSet(task_queue) => 0 - e.priority = clock + 15
            /\ dirty' = (dirty \/ data' # data)
            /\ changed' = (changed \/ data' # data)
            /\ saved' = saved
            /\ file' = file
       /\ SaveRunStep =>
            /\ saved'.wrote = dirty
            /\ changed => dirty
            /\ dirty' = (dirty /\ Lines(logged', "Saving") > 0)
            /\ ~FirstOfBurst /\ dirty => /\ saved.wrote
                                         /\ Lines(logged, "Saving") > 0
            /\ Cardinality(SaveTasks(task_queue')) = Cardinality(SaveTasks(task_queue)) - 1]_vars

\* Two calls in a burst, the first save failed, and the second save of the
\* burst wrote the file.
C31_Witness ==
    /\ pc = "unit"
    /\ last.ran = <<SettingsSave(2)>>
    /\ SaveTasks(task_queue) = {}
    /\ saved.wrote
    /\ ~dirty
    /\ clock = 15
    /\ file = Some(json_dumps([temp_high |-> 75, temp_low |-> 70]))

\* C32: a setting that is dirty is eventually saved: the dirty flag set by a
\* set_range call that changes a value is eventually clear again.
C32_EventuallyPersisted == dirty ~> ~dirty

====
